---- MODULE Spec2Model ----
(***************************************************************************)
(* VirtualRealTimeClockLib: the EFI RealTimeClock library services built   *)
(* on the ARM performance counter (LibGetTime and the unsupported stubs).  *)
(*                                                                         *)
(* Unsigned integers wider than 16 bits are kept as little-endian tuples   *)
(* of 16-bit limbs (UINT64: 4 limbs, UINT32: 2 limbs), so that the widths  *)
(* of the C types, and the truncation of a store into a narrower field,    *)
(* are part of the model.                                                  *)
(***************************************************************************)
EXTENDS Integers, Sequences, FiniteSets, TLC

\* ------------------------------------------------------------ bounds
\* How many of the counter values listed in CounterValues the performance
\* counter takes in a run.
NumCounterValues == 6

\* ------------------------------------------------- unsigned arithmetic
Limb == 2^16
HalfLimb == 2^15

Zero64 == <<0, 0, 0, 0>>
Max64 == <<Limb - 1, Limb - 1, Limb - 1, Limb - 1>>

\* A natural below 2^31 as a UINT64.
FromInt(n) == <<n % Limb, n \div Limb, 0, 0>>

\* Zero extension of a UINT32 (2 limbs) to UINT64, as the assignment of a
\* UINT32 expression to a UINT64 variable does.
ZeroExtend32(x) == <<x[1], x[2], 0, 0>>

\* Conversion of a UINT64 to UINT32 / UINT8 on assignment: the low bits.
ToUINT32(x) == <<x[1], x[2]>>
ToUINT8(x) == x[1] % 256

\* a < b for two UINT64 values, and for the 5-limb values of the division.
Lt(a, b) ==
  IF a[4] # b[4] THEN a[4] < b[4]
  ELSE IF a[3] # b[3] THEN a[3] < b[3]
  ELSE IF a[2] # b[2] THEN a[2] < b[2]
  ELSE a[1] < b[1]

Lt5(a, b) == IF a[5] # b[5] THEN a[5] < b[5] ELSE Lt(a, b)

\* Bit i (0 = least significant) of a UINT64.
Bit(a, i) == (a[(i \div 16) + 1] \div (2^(i % 16))) % 2

\* (a * 2 + b) on 5 limbs; the callers keep the result below 2^80.
Shl1(a, b) ==
  << ((a[1] * 2) % Limb) + b,
     ((a[2] * 2) % Limb) + (a[1] \div HalfLimb),
     ((a[3] * 2) % Limb) + (a[2] \div HalfLimb),
     ((a[4] * 2) % Limb) + (a[3] \div HalfLimb),
     ((a[5] * 2) % Limb) + (a[4] \div HalfLimb) >>

\* a - b on 5 limbs, for a >= b.
Sub5(a, b) ==
  LET b1 == IF a[1] < b[1] THEN 1 ELSE 0
      b2 == IF a[2] < b[2] + b1 THEN 1 ELSE 0
      b3 == IF a[3] < b[3] + b2 THEN 1 ELSE 0
      b4 == IF a[4] < b[4] + b3 THEN 1 ELSE 0
  IN << (a[1] - b[1] + Limb) % Limb,
        (a[2] - b[2] - b1 + Limb) % Limb,
        (a[3] - b[3] - b2 + Limb) % Limb,
        (a[4] - b[4] - b3 + Limb) % Limb,
        (a[5] - b[5] - b4 + Limb) % Limb >>

\* Index of the highest limb of a UINT64 that is not zero (0 for zero).
TopLimb(a) ==
  IF a[4] # 0 THEN 4 ELSE IF a[3] # 0 THEN 3 ELSE IF a[2] # 0 THEN 2
  ELSE IF a[1] # 0 THEN 1 ELSE 0

\* One step of binary long division: s = <<q, r>> (5 limbs each) are the
\* quotient and remainder of the bits of n above bit i; bit i is brought down.
DivStep(n, d, s, i) ==
  LET r1 == Shl1(s[2], Bit(n, i))
  IN IF Lt5(r1, d) THEN <<Shl1(s[1], 0), r1>>
                  ELSE <<Shl1(s[1], 1), Sub5(r1, d)>>

\* The steps for bits hi, hi-1, ..., lo of n, in that order.
RECURSIVE DivRange(_, _, _, _, _)
DivRange(n, d, s, hi, lo) ==
  IF hi < lo THEN s
  ELSE IF hi = lo THEN DivStep(n, d, s, hi)
  ELSE LET mid == (hi + lo + 1) \div 2
           upper == DivRange(n, d, s, hi, mid)
       IN \* after a step the remainder is below the divisor (d # 0)
          IF Lt5(upper[2], d) THEN DivRange(n, d, upper, mid - 1, lo)
                             ELSE upper

\* <<n / d, n % d>> of two UINT64 values, d # 0: C's unsigned division,
\* which truncates.
DivMod64(n, d) ==
  IF Lt(n, d) THEN <<Zero64, n>>
  ELSE
  LET qr == DivRange(n, <<d[1], d[2], d[3], d[4], 0>>,
                     << <<0, 0, 0, 0, 0>>, <<0, 0, 0, 0, 0>> >>,
                     16 * TopLimb(n) - 1, 0)
  IN << <<qr[1][1], qr[1][2], qr[1][3], qr[1][4]>>,
        <<qr[2][1], qr[2][2], qr[2][3], qr[2][4]>> >>

\* n / d as line 93 and lines 102-110 compute it.
Div64(n, d) == DivMod64(n, d)[1]

\* ------------------------------------------------------------- types
NULL == "NULL"

\* The caller's EFI_TIME buffers and its EFI_TIME_CAPABILITIES buffer.
TimeBuffers == {"TimeA", "TimeB"}
CapabilitiesBuffers == {"Caps"}

EFI_SUCCESS == "EFI_SUCCESS"
EFI_INVALID_PARAMETER == "EFI_INVALID_PARAMETER"
EFI_DEVICE_ERROR == "EFI_DEVICE_ERROR"
EFI_UNSUPPORTED == "EFI_UNSUPPORTED"

\* EFI_TIME as a caller may hand it in: one buffer holds whatever was on the
\* stack, the other was zeroed. UINT16 Year; UINT8 Month, Day, Hour, Minute,
\* Second, Pad1; UINT32 Nanosecond; INT16 TimeZone; UINT8 Daylight, Pad2.
StaleTime ==
  [Year |-> 2018, Month |-> 7, Day |-> 31, Hour |-> 23, Minute |-> 59,
   Second |-> 58, Pad1 |-> 170, Nanosecond |-> <<51712, 15258>>,
   TimeZone |-> 2047, Daylight |-> 3, Pad2 |-> 85]
ZeroedTime ==
  [Year |-> 0, Month |-> 0, Day |-> 0, Hour |-> 0, Minute |-> 0,
   Second |-> 0, Pad1 |-> 0, Nanosecond |-> <<0, 0>>,
   TimeZone |-> 0, Daylight |-> 0, Pad2 |-> 0]

\* EFI_TIME_CAPABILITIES: UINT32 Resolution, UINT32 Accuracy, BOOLEAN
\* SetsToZero; the contents before any call.
StaleCapabilities ==
  [Resolution |-> <<65535, 65535>>, Accuracy |-> <<50000, 761>>,
   SetsToZero |-> TRUE]

\* ------------------------------------------------------- environment
\* The values of the fixed PCD PcdArmArchTimerFreqInHz (UINT32) the
\* platform may be built with: no override, 50 Hz, 2^32 - 1 Hz.
PcdValues == {<<0, 0>>, <<50, 0>>, <<65535, 65535>>}

\* The values GetPerformanceCounterProperties() (UINT64) may return:
\* unknown, 100 Hz, 2^32 + 100 Hz.
FrequencyValues == {Zero64, FromInt(100), <<100, 0, 1, 0>>}

\* Values of the 64-bit counter, increasing: 0; 200000; 864000000;
\* 2211839999 and 2211840000 (the last tick of day 255 and the first of day
\* 256 at 100 Hz); 2^63; 2^64 - 1.
CounterValues ==
  << Zero64, <<3392, 3, 0, 0>>, <<38912, 13183, 0, 0>>,
     <<65535, 33749, 0, 0>>, <<0, 33750, 0, 0>>, Max64,
     <<0, 0, 0, HalfLimb>> >>

CounterSet == {CounterValues[i] : i \in 1..NumCounterValues}

VARIABLES
  PcdArmArchTimerFreqInHz,      \* the platform's PCD, UINT32
  PerformanceCounterFrequency,  \* what GetPerformanceCounterProperties returns
  PerformanceCounter,           \* what GetPerformanceCounter returns now
  timeMem,                      \* contents of the caller's EFI_TIME buffers
  capsMem,                      \* contents of the EFI_TIME_CAPABILITIES buffer
  wakeMem,                      \* the BOOLEANs GetWakeupTime's Enabled/Pending point to
  pc,                           \* where the thread of execution is
  call,                         \* the service called last: its arguments and status
  TimerFreq,                    \* LibGetTime's local
  reads,                        \* the collaborator reads of the LibGetTime call, in order
  lastCall                      \* per EFI_TIME buffer: the last LibGetTime call on it

vars == <<PcdArmArchTimerFreqInHz, PerformanceCounterFrequency,
          PerformanceCounter, timeMem, capsMem, wakeMem, pc, call, TimerFreq,
          reads, lastCall>>

env == <<PcdArmArchTimerFreqInHz, PerformanceCounterFrequency>>
memory == <<timeMem, capsMem, wakeMem>>

NoCall == [op |-> "none", Time |-> NULL, Capabilities |-> NULL, status |-> "none"]
Never == [status |-> "none", tick |-> Zero64, freq |-> Zero64, elapsed |-> Zero64]
Uninitialized == "uninitialized"

Init ==
  /\ PcdArmArchTimerFreqInHz \in PcdValues
  /\ PerformanceCounterFrequency \in FrequencyValues
  /\ PerformanceCounter = Zero64
  /\ timeMem = [b \in TimeBuffers |-> IF b = "TimeA" THEN StaleTime ELSE ZeroedTime]
  /\ capsMem = [b \in CapabilitiesBuffers |-> StaleCapabilities]
  /\ wakeMem = [Enabled |-> TRUE, Pending |-> TRUE]
  /\ pc = "Idle"
  /\ call = NoCall
  /\ TimerFreq = Uninitialized
  /\ reads = <<>>
  /\ lastCall = [b \in TimeBuffers |-> Never]

\* ----------------------------------------------------------- LibGetTime
\* ResolveTimerFreq with the preference reversed: the live frequency when it
\* is known, else the PCD.
ResolveTimerFreq_LiveFirst(pcd, live) ==
  IF live # Zero64 THEN live ELSE ZeroExtend32(pcd)

\* Lines 76-80: the PCD when it is set, else the live frequency.
ResolveTimerFreq(pcd, live) ==
  IF pcd # <<0, 0>> THEN ZeroExtend32(pcd) ELSE live

\* ResolveReads with the live frequency queried first, whatever the PCD is.
ResolveReads_QueryAlways(pcd) ==
  IF pcd # <<0, 0>> THEN <<"GetPerformanceCounterProperties", "PcdGet32">>
                    ELSE <<"GetPerformanceCounterProperties">>

\* The collaborators lines 76-80 read, in order.
ResolveReads(pcd) ==
  IF pcd # <<0, 0>> THEN <<"PcdGet32", "PcdGet32">>
                    ELSE <<"PcdGet32", "GetPerformanceCounterProperties">>

\* Lines 87-91: the capabilities buffer after the stores through
\* Capabilities; Resolution is a UINT32 field.
CapabilitiesOut(old, freq) ==
  [old EXCEPT !.Accuracy = <<0, 0>>,
              !.Resolution = ToUINT32(freq),
              !.SetsToZero = FALSE]

SECONDS_PER_DAY == FromInt(24 * 60 * 60)
SECONDS_PER_HOUR == FromInt(60 * 60)
SECONDS_PER_MINUTE == FromInt(60)

\* TimeOut without the stores of lines 114-116.
TimeOut_NoTail(old, ElapsedSeconds) ==
  LET day == DivMod64(ElapsedSeconds, SECONDS_PER_DAY)
      hour == DivMod64(day[2], SECONDS_PER_HOUR)
      minute == DivMod64(hour[2], SECONDS_PER_MINUTE)
  IN [old EXCEPT !.Year = 0,
                 !.Month = 0,
                 !.Day = ToUINT8(day[1]),
                 !.Hour = ToUINT8(hour[1]),
                 !.Minute = ToUINT8(minute[1]),
                 !.Second = ToUINT8(minute[2])]

\* TimeOut without the stores of lines 98-99.
TimeOut_NoYearMonth(old, ElapsedSeconds) ==
  LET day == DivMod64(ElapsedSeconds, SECONDS_PER_DAY)
      hour == DivMod64(day[2], SECONDS_PER_HOUR)
      minute == DivMod64(hour[2], SECONDS_PER_MINUTE)
  IN [old EXCEPT !.Day = ToUINT8(day[1]),
                 !.Hour = ToUINT8(hour[1]),
                 !.Minute = ToUINT8(minute[1]),
                 !.Second = ToUINT8(minute[2]),
                 !.Nanosecond = <<0, 0>>,
                 !.TimeZone = 0,
                 !.Daylight = 0]

\* Lines 98-116: the EFI_TIME buffer after the stores through Time, from
\* ElapsedSeconds as line 93 computed it. Day, Hour, Minute and Second are
\* UINT8 fields; Pad1 and Pad2 are not stored to.
TimeOut(old, ElapsedSeconds) ==
  LET day == DivMod64(ElapsedSeconds, SECONDS_PER_DAY)
      hour == DivMod64(day[2], SECONDS_PER_HOUR)
      minute == DivMod64(hour[2], SECONDS_PER_MINUTE)
  IN [old EXCEPT !.Year = 0,
                 !.Month = 0,
                 !.Day = ToUINT8(day[1]),
                 !.Hour = ToUINT8(hour[1]),
                 !.Minute = ToUINT8(minute[1]),
                 !.Second = ToUINT8(minute[2]),
                 !.Nanosecond = <<0, 0>>,
                 !.TimeZone = 0,
                 !.Daylight = 0]

\* LibGetTime_Entry with the frequency resolved and checked before Time is.
LibGetTime_Entry_FreqFirst(Time, Capabilities) ==
  /\ pc = "Idle"
  /\ IF Time = NULL
     THEN /\ call' = [op |-> "LibGetTime", Time |-> Time,
                      Capabilities |-> Capabilities,
                      status |-> IF ResolveTimerFreq(PcdArmArchTimerFreqInHz,
                                       PerformanceCounterFrequency) = Zero64
                                 THEN EFI_DEVICE_ERROR
                                 ELSE EFI_INVALID_PARAMETER]
          /\ reads' = ResolveReads(PcdArmArchTimerFreqInHz)
          /\ UNCHANGED <<pc, TimerFreq>>
     ELSE /\ call' = [op |-> "LibGetTime", Time |-> Time,
                      Capabilities |-> Capabilities, status |-> "running"]
          /\ TimerFreq' = ResolveTimerFreq(PcdArmArchTimerFreqInHz,
                                           PerformanceCounterFrequency)
          /\ reads' = ResolveReads(PcdArmArchTimerFreqInHz)
          /\ pc' = "L82"
  /\ UNCHANGED <<env, PerformanceCounter, memory, lastCall>>

\* Lines 61-80: the call, the check of Time and the frequency resolution.
LibGetTime_Entry(Time, Capabilities) ==
  /\ pc = "Idle"
  /\ IF Time = NULL
     THEN /\ call' = [op |-> "LibGetTime", Time |-> Time,
                      Capabilities |-> Capabilities,
                      status |-> EFI_INVALID_PARAMETER]
          /\ reads' = <<>>
          /\ UNCHANGED <<pc, TimerFreq>>
     ELSE /\ call' = [op |-> "LibGetTime", Time |-> Time,
                      Capabilities |-> Capabilities, status |-> "running"]
          /\ TimerFreq' = ResolveTimerFreq(PcdArmArchTimerFreqInHz,
                                           PerformanceCounterFrequency)
          /\ reads' = ResolveReads(PcdArmArchTimerFreqInHz)
          /\ pc' = "L82"
  /\ UNCHANGED <<env, PerformanceCounter, memory, lastCall>>

\* LibGetTime_CheckFreq with lines 87-91 moved before the check of line 83.
LibGetTime_CheckFreq_CapsFirst ==
  /\ pc = "L82"
  /\ capsMem' = IF call.Capabilities # NULL
                THEN [capsMem EXCEPT ![call.Capabilities] =
                        CapabilitiesOut(@, TimerFreq)]
                ELSE capsMem
  /\ IF TimerFreq = Zero64
     THEN /\ pc' = "Idle"
          /\ call' = [call EXCEPT !.status = EFI_DEVICE_ERROR]
          /\ TimerFreq' = Uninitialized
          /\ lastCall' = [lastCall EXCEPT ![call.Time] =
                            [status |-> EFI_DEVICE_ERROR,
                             tick |-> PerformanceCounter,
                             freq |-> TimerFreq, elapsed |-> Zero64]]
     ELSE /\ pc' = "L93"
          /\ UNCHANGED <<call, TimerFreq, lastCall>>
  /\ UNCHANGED <<env, PerformanceCounter, timeMem, wakeMem, reads>>

\* Lines 82-91: ASSERT (TimerFreq > 0), which in a build with assertions
\* that halt never returns; the check for zero; the capabilities.
LibGetTime_CheckFreq ==
  /\ pc = "L82"
  /\ IF TimerFreq = Zero64
     THEN \/ /\ pc' = "DeadLoop"
             /\ UNCHANGED <<call, TimerFreq, lastCall>>
          \/ /\ pc' = "Idle"
             /\ call' = [call EXCEPT !.status = EFI_DEVICE_ERROR]
             /\ TimerFreq' = Uninitialized
             /\ lastCall' = [lastCall EXCEPT ![call.Time] =
                               [status |-> EFI_DEVICE_ERROR,
                                tick |-> PerformanceCounter,
                                freq |-> TimerFreq, elapsed |-> Zero64]]
          /\ UNCHANGED capsMem
     ELSE /\ pc' = "L93"
          /\ capsMem' = IF call.Capabilities # NULL
                        THEN [capsMem EXCEPT ![call.Capabilities] =
                                CapabilitiesOut(@, TimerFreq)]
                        ELSE capsMem
          /\ UNCHANGED <<call, TimerFreq, lastCall>>
  /\ UNCHANGED <<env, PerformanceCounter, timeMem, wakeMem, reads>>

\* Lines 93-125: the counter read, the division and the stores through Time.
LibGetTime_ReadCounter ==
  /\ pc = "L93"
  /\ LET ElapsedSeconds == Div64(PerformanceCounter, TimerFreq)
     IN /\ timeMem' = [timeMem EXCEPT ![call.Time] = TimeOut(@, ElapsedSeconds)]
        /\ lastCall' = [lastCall EXCEPT ![call.Time] =
                          [status |-> EFI_SUCCESS, tick |-> PerformanceCounter,
                           freq |-> TimerFreq, elapsed |-> ElapsedSeconds]]
  /\ reads' = Append(reads, "GetPerformanceCounter")
  /\ call' = [call EXCEPT !.status = EFI_SUCCESS]
  /\ pc' = "Idle"
  /\ TimerFreq' = Uninitialized
  /\ UNCHANGED <<env, PerformanceCounter, capsMem, wakeMem>>

\* ------------------------------------------------- the other services
Returned(op, status) ==
  [op |-> op, Time |-> NULL, Capabilities |-> NULL, status |-> status]

\* LibSetTime accepting the time.
LibSetTime_Accepts(Time) ==
  /\ pc = "Idle"
  /\ call' = Returned("LibSetTime", EFI_SUCCESS)
  /\ UNCHANGED <<env, PerformanceCounter, memory, pc, TimerFreq, reads, lastCall>>

\* Lines 136-144.
LibSetTime(Time) ==
  /\ pc = "Idle"
  /\ call' = Returned("LibSetTime", EFI_UNSUPPORTED)
  /\ UNCHANGED <<env, PerformanceCounter, memory, pc, TimerFreq, reads, lastCall>>

\* Lines 158-167.
LibGetWakeupTime(Enabled, Pending, Time) ==
  /\ pc = "Idle"
  /\ call' = Returned("LibGetWakeupTime", EFI_UNSUPPORTED)
  /\ UNCHANGED <<env, PerformanceCounter, memory, pc, TimerFreq, reads, lastCall>>

\* Lines 178-186.
LibSetWakeupTime(Enabled, Time) ==
  /\ pc = "Idle"
  /\ call' = Returned("LibSetWakeupTime", EFI_UNSUPPORTED)
  /\ UNCHANGED <<env, PerformanceCounter, memory, pc, TimerFreq, reads, lastCall>>

\* Lines 199-208.
LibRtcInitialize ==
  /\ pc = "Idle"
  /\ call' = Returned("LibRtcInitialize", EFI_SUCCESS)
  /\ UNCHANGED <<env, PerformanceCounter, memory, pc, TimerFreq, reads, lastCall>>

\* Lines 218-227: returns nothing.
LibRtcVirtualNotifyEvent ==
  /\ pc = "Idle"
  /\ call' = Returned("LibRtcVirtualNotifyEvent", "void")
  /\ UNCHANGED <<env, PerformanceCounter, memory, pc, TimerFreq, reads, lastCall>>

\* The hardware counter counts up, whatever the firmware is doing.
CounterAdvance ==
  /\ \E t \in CounterSet :
       /\ Lt(PerformanceCounter, t)
       /\ PerformanceCounter' = t
  /\ UNCHANGED <<env, memory, pc, call, TimerFreq, reads, lastCall>>

CallLibGetTime ==
  \E Time \in TimeBuffers \cup {NULL}, Capabilities \in CapabilitiesBuffers \cup {NULL} :
    LibGetTime_Entry(Time, Capabilities)
CallLibSetTime == \E Time \in TimeBuffers \cup {NULL} : LibSetTime(Time)
CallLibGetWakeupTime ==
  \E Enabled \in {"Enabled", NULL}, Pending \in {"Pending", NULL},
     Time \in TimeBuffers \cup {NULL} : LibGetWakeupTime(Enabled, Pending, Time)
CallLibSetWakeupTime ==
  \E Enabled \in BOOLEAN, Time \in TimeBuffers \cup {NULL} :
    LibSetWakeupTime(Enabled, Time)

Next ==
  \/ CallLibGetTime
  \/ LibGetTime_CheckFreq
  \/ LibGetTime_ReadCounter
  \/ CallLibSetTime
  \/ CallLibGetWakeupTime
  \/ CallLibSetWakeupTime
  \/ LibRtcInitialize
  \/ LibRtcVirtualNotifyEvent
  \/ CounterAdvance

Spec == Init /\ [][Next]_vars

\* ------------------------------------------------------------ claims
GetTimeReturned == call.op = "LibGetTime" /\ pc = "Idle"

\* The frequency LibGetTime resolves in this platform.
Resolved ==
  IF PcdArmArchTimerFreqInHz # <<0, 0>>
  THEN ZeroExtend32(PcdArmArchTimerFreqInHz)
  ELSE PerformanceCounterFrequency

BothZero ==
  PcdArmArchTimerFreqInHz = <<0, 0>> /\ PerformanceCounterFrequency = Zero64

\* The elapsed seconds an EFI_TIME stands for.
Yield(t) == t.Day * 86400 + t.Hour * 3600 + t.Minute * 60 + t.Second

\* The fields of EFI_TIME that have a name in the breakdown (all but the pads).
NamedFields(t) ==
  <<t.Year, t.Month, t.Day, t.Hour, t.Minute, t.Second, t.Nanosecond,
    t.TimeZone, t.Daylight>>

Count(seq, e) == Cardinality({i \in 1..Len(seq) : seq[i] = e})

\* C1: with a non-zero frequency a LibGetTime call with a Time buffer
\* succeeds, and the Day, Hour, Minute and Second it stored satisfy
\* tick / frequency = Day*86400 + Hour*3600 + Minute*60 + Second, Hour < 24,
\* Minute < 60, Second < 60 and Day = (tick / frequency) / 86400.
C1_Breakdown ==
  /\ (GetTimeReturned /\ call.Time # NULL /\ Resolved # Zero64)
       => call.status = EFI_SUCCESS
  /\ \A b \in TimeBuffers :
       lastCall[b].status = EFI_SUCCESS =>
         LET t == timeMem[b]
             seconds == Div64(lastCall[b].tick, lastCall[b].freq)
         IN /\ seconds = FromInt(Yield(t))
            /\ t.Hour < 24 /\ t.Minute < 60 /\ t.Second < 60
            /\ FromInt(t.Day) = Div64(seconds, SECONDS_PER_DAY)

C3_NullTime ==
  [][(call'.op = "LibGetTime" /\ call'.Time = NULL) =>
       /\ call'.status = EFI_INVALID_PARAMETER
       /\ pc' = "Idle"
       /\ UNCHANGED memory]_vars

C3_Witness ==
  /\ BothZero
  /\ GetTimeReturned
  /\ call.Time = NULL
  /\ call.Capabilities # NULL
  /\ call.status = EFI_INVALID_PARAMETER
  /\ PerformanceCounter # Zero64

\* C4: when the PCD is not 0, TimerFreq, the division of line 93 and the
\* Resolution reported use the PCD, whatever the live frequency is; the live
\* frequency is used only when the PCD is 0.
C4_Override ==
  LET override == ZeroExtend32(PcdArmArchTimerFreqInHz)
      used == IF PcdArmArchTimerFreqInHz # <<0, 0>>
              THEN override ELSE PerformanceCounterFrequency
  IN /\ TimerFreq # Uninitialized => TimerFreq = used
     /\ \A b \in TimeBuffers :
          lastCall[b].status = EFI_SUCCESS => lastCall[b].freq = used
     /\ (GetTimeReturned /\ call.status = EFI_SUCCESS) =>
          /\ lastCall[call.Time].elapsed = Div64(lastCall[call.Time].tick, used)
          /\ (call.Capabilities # NULL /\ PcdArmArchTimerFreqInHz # <<0, 0>>)
               => capsMem[call.Capabilities].Resolution = PcdArmArchTimerFreqInHz

C4_Witness ==
  /\ PcdArmArchTimerFreqInHz = <<50, 0>>
  /\ PerformanceCounterFrequency = FromInt(100)
  /\ GetTimeReturned
  /\ call.status = EFI_SUCCESS
  /\ call.Capabilities # NULL
  /\ capsMem[call.Capabilities].Resolution = <<50, 0>>
  /\ lastCall[call.Time].tick = FromInt(200000)
  /\ lastCall[call.Time].elapsed = FromInt(4000)

Stubs == {"LibSetTime", "LibGetWakeupTime", "LibSetWakeupTime"}

\* C5: LibSetTime, LibGetWakeupTime and LibSetWakeupTime return
\* EFI_UNSUPPORTED for every argument, and the call changes nothing: no
\* buffer, and nothing a later LibGetTime reads.
C5_Unsupported ==
  [][call'.op \in Stubs =>
       /\ call'.status = EFI_UNSUPPORTED
       /\ UNCHANGED <<memory, env, pc, TimerFreq, reads, lastCall>>
       /\ call' # call => UNCHANGED PerformanceCounter]_vars

C5_Witness ==
  /\ call.op = "LibSetTime"
  /\ call.status = EFI_UNSUPPORTED
  /\ lastCall["TimeA"].status = EFI_SUCCESS

\* C6: a successful LibGetTime call with a capabilities buffer leaves
\* Accuracy = 0, SetsToZero = FALSE and Resolution equal to the frequency
\* resolved for the call; without a capabilities buffer the call writes no
\* capabilities.
C6_Capabilities ==
  [][(pc = "L82" /\ pc' = "L93") =>
       IF call.Capabilities # NULL
       THEN /\ capsMem'[call.Capabilities].Accuracy = <<0, 0>>
            /\ capsMem'[call.Capabilities].SetsToZero = FALSE
            /\ ZeroExtend32(capsMem'[call.Capabilities].Resolution) = TimerFreq
       ELSE capsMem' = capsMem]_vars

\* C7: of two successful LibGetTime calls with the counter not decreasing
\* from the first to the second, the second yields at least the elapsed
\* seconds (Day*86400 + Hour*3600 + Minute*60 + Second) of the first.
C7_Monotonic ==
  \A a, b \in TimeBuffers :
    (/\ lastCall[a].status = EFI_SUCCESS
     /\ lastCall[b].status = EFI_SUCCESS
     /\ Lt(lastCall[a].tick, lastCall[b].tick))
      => Yield(timeMem[a]) <= Yield(timeMem[b])

\* C8 as stated: two LibGetTime calls that saw the same counter value and
\* frequency return the same status and leave byte-identical EFI_TIME
\* buffers, whatever the buffers held before and whatever ran in between;
\* LibRtcInitialize returns EFI_SUCCESS.
C8_ByteIdentical ==
  /\ call.op = "LibRtcInitialize" => call.status = EFI_SUCCESS
  /\ \A a, b \in TimeBuffers :
       (/\ lastCall[a].status # "none"
        /\ lastCall[b].status # "none"
        /\ lastCall[a].tick = lastCall[b].tick
        /\ lastCall[a].freq = lastCall[b].freq)
         => /\ lastCall[a].status = lastCall[b].status
            /\ lastCall[a].status = EFI_SUCCESS => timeMem[a] = timeMem[b]

\* C8 as amended: two LibGetTime calls that saw the same counter value and
\* frequency return the same status and leave the same value in every named
\* field of EFI_TIME (Year, Month, Day, Hour, Minute, Second, Nanosecond,
\* TimeZone, Daylight), whatever the buffers held before and whatever ran in
\* between; LibRtcInitialize returns EFI_SUCCESS.
C8_SameFields ==
  /\ call.op = "LibRtcInitialize" => call.status = EFI_SUCCESS
  /\ \A a, b \in TimeBuffers :
       (/\ lastCall[a].status # "none"
        /\ lastCall[b].status # "none"
        /\ lastCall[a].tick = lastCall[b].tick
        /\ lastCall[a].freq = lastCall[b].freq)
         => /\ lastCall[a].status = lastCall[b].status
            /\ lastCall[a].status = EFI_SUCCESS
                 => NamedFields(timeMem[a]) = NamedFields(timeMem[b])

C8_Witness ==
  /\ lastCall["TimeA"].status = EFI_SUCCESS
  /\ lastCall["TimeB"].status = EFI_SUCCESS
  /\ lastCall["TimeA"].tick = lastCall["TimeB"].tick
  /\ lastCall["TimeA"].tick = FromInt(200000)
  /\ timeMem["TimeA"].Minute = 33
  /\ timeMem["TimeA"].Pad1 # timeMem["TimeB"].Pad1
  /\ call.op = "LibRtcInitialize"

\* C9: after a successful LibGetTime call, Year, Month, Nanosecond, TimeZone
\* and Daylight of the buffer are 0, whatever the buffer held before.
C9_Fixed ==
  \A b \in TimeBuffers :
    lastCall[b].status = EFI_SUCCESS =>
      /\ timeMem[b].Year = 0
      /\ timeMem[b].Month = 0
      /\ timeMem[b].Nanosecond = <<0, 0>>
      /\ timeMem[b].TimeZone = 0
      /\ timeMem[b].Daylight = 0

C9_Witness ==
  /\ lastCall["TimeA"].status = EFI_SUCCESS
  /\ lastCall["TimeA"].tick = Max64
  /\ timeMem["TimeA"].Pad2 = StaleTime.Pad2

\* C10: in one LibGetTime call the counter is read only after the frequency
\* was resolved and found non-zero; a successful call reads it exactly once,
\* a call that returns EFI_INVALID_PARAMETER or EFI_DEVICE_ERROR never; the
\* live frequency is queried at most once, and only when the PCD is 0.
C10_Reads ==
  call.op = "LibGetTime" =>
    LET counter == Count(reads, "GetPerformanceCounter")
        live == Count(reads, "GetPerformanceCounterProperties")
    IN /\ call.status = EFI_SUCCESS =>
            /\ counter = 1
            /\ reads[Len(reads)] = "GetPerformanceCounter"
            /\ Len(reads) = 3
       /\ call.status # EFI_SUCCESS => counter = 0
       /\ counter > 0 => Resolved # Zero64
       /\ live <= 1
       /\ live = 1 => PcdArmArchTimerFreqInHz = <<0, 0>>
       /\ call.status = EFI_INVALID_PARAMETER => reads = <<>>

C10_Witness ==
  /\ GetTimeReturned
  /\ call.status = EFI_SUCCESS
  /\ reads = <<"PcdGet32", "GetPerformanceCounterProperties",
               "GetPerformanceCounter">>

====
